---- MODULE Spec2Model ----
(***************************************************************************)
(* The training pipeline of src/components/ui/SystemStatusButton.tsx       *)
(* (TrainingContextProvider): trainAllSources, _trainSource,               *)
(* generateEmbeddings, _generateEmbeddingForFile, stopGeneratingEmbeddings.*)
(*                                                                         *)
(* JavaScript runs one macrotask (an I/O completion, a UI event) at a time *)
(* and drains the microtask queue (promise reactions) before the next one. *)
(* The variable micro is that queue: an action standing for an I/O         *)
(* completion or a UI event is enabled only when micro is empty, and a     *)
(* promise reaction is the action at the head of micro.                    *)
(***************************************************************************)
EXTENDS Integers, Sequences, FiniteSets, TLC

\* ----- bounds of the model
MaxSources == 2   \* sources of the project
MaxFiles == 7     \* files of all sources together
SmallFiles == 2   \* files of a Motif project, URLs of a sitemap

\* ----- program constants
ConcurrencyLimit == 5

SitemapLimit == 10
ErrorString == "Error processing"
Contents == {"a", "b"}
Null == "null"
NoChecksum == <<>>

VARIABLES
  project,    \* project?.id is present
  sources,    \* the sources of useSources()
  budget,     \* files the sources may still list, within MaxFiles
  tpc,        \* where trainAllSources / _trainSource / generateEmbeddings waits
  srcIdx,     \* the source trainAllSources is at
  nb,         \* generateEmbeddings invocations so far
  batch,      \* the live invocations: p-limit queue, tasks, Promise.all
  micro,      \* the microtask queue
  state,      \* TrainingState
  errors,     \* the error list
  stopFlag,   \* stopFlag.current
  crawl,      \* processedLinks and linksToProcess of the website case
  onErrors,   \* the onError calls, by source
  quotaNb,    \* history: the invocations begun when processFile first failed
              \* on quota (0: it never did)
  stopCalled, \* history: stopGeneratingEmbeddings was called during the pass
  calls,      \* the calls of generateEmbeddings from outside trainAllSources
  maxProgress,\* history: the highest progress a loading state has shown
  fn,         \* a call of a function of utils or of the search route
  req         \* a request to /api/v1/search and what the handler did with it

vars == <<project, sources, budget, tpc, srcIdx, nb, batch, micro, state,
          errors, stopFlag, crawl, onErrors, quotaNb, stopCalled, calls,
          maxProgress, fn, req>>

\* the variables that the training provider does not touch
apiVars == <<fn, req>>

NoCall == [f |-> "none"]

NoRequest == [pc |-> "none"]

\* ----- TrainingState values
IdleState == [state |-> "idle"]
FetchingDataState == [state |-> "fetching_data"]
CancelRequestsState == [state |-> "cancel_requested"]
\* a faulty variant of lines 210-215: the progress is the index
LoadingState_ZeroBased(index, numFiles) ==
  [state |-> "loading", progress |-> index, total |-> numFiles]

\* lines 210-215
LoadingState(index, numFiles) ==
  [state |-> "loading", progress |-> index + 1, total |-> numFiles]

\* ----- utils: createChecksum is sha256 of the content, taken as injective
createChecksum(content) == <<"sha256", content>>

\* what the loaded list may hold for a path: nothing, or a checksum
StoredChecksums == {NoChecksum, createChecksum("a")}

\* ----- a task of _generateEmbeddingForFile
\* pc: fetching (await getFileNameContent), submitting (await processFile),
\*     settled (returned or thrown; p-limit's reaction is in micro)
\* stopAtStart, pass, same record what the task met; sets, fetches, calls,
\* errs, processed count its setState, getFileNameContent, processFile,
\* setErrors and onFileProcessed calls.
NewItem ==
  [pc |-> "settled", res |-> "", rejected |-> FALSE,
   stopAtStart |-> FALSE, pass |-> FALSE, same |-> FALSE,
   sets |-> 0, fetches |-> 0, calls |-> 0, errs |-> 0, processed |-> 0]

\* line 190
CancelCheck(flag) == flag

\* a faulty variant of lines 199-208: no path is filtered out
FilterRejects_Never(pass) == FALSE

\* lines 199-208: the path filter's verdict is an input
FilterRejects(pass) == ~pass

\* lines 190-219: the task up to its first await
StartOfFile(flag, pass) ==
  LET it == [NewItem EXCEPT !.stopAtStart = flag, !.pass = pass] IN
  IF CancelCheck(flag) THEN [it EXCEPT !.res = "cancelled"]
  ELSE IF FilterRejects(pass) THEN [it EXCEPT !.res = "filtered"]
  ELSE [it EXCEPT !.pc = "fetching", !.sets = @ + 1, !.fetches = @ + 1]

\* faulty variants of the comparison of line 227: every file is taken as
\* changed, every file is taken as unchanged
ChecksumUnchanged_Never(prevChecksum, currentChecksum) == FALSE

ChecksumUnchanged_Always(prevChecksum, currentChecksum) == TRUE

\* line 227
ChecksumUnchanged(prevChecksum, currentChecksum) ==
  prevChecksum = currentChecksum

\* a faulty variant of lines 217-241: the task looks at the stop flag again
\* once its content is there
AfterContent_Interrupted(it, prev, r) ==
  IF r = "throw" THEN
    [it EXCEPT !.pc = "settled", !.res = "fetchthrow", !.rejected = TRUE]
  ELSE IF r = Null THEN
    [it EXCEPT !.pc = "settled", !.res = "nocontent"]
  ELSE IF stopFlag THEN
    [it EXCEPT !.pc = "settled", !.res = "cancelled",
               !.same = (prev = createChecksum(r))]
  ELSE IF prev = createChecksum(r) THEN
    [it EXCEPT !.pc = "settled", !.res = "unchanged", !.same = TRUE]
  ELSE
    [it EXCEPT !.pc = "submitting", !.calls = @ + 1, !.same = FALSE]

\* lines 217-241: from the content to the processFile call. prev is the
\* checksum the loaded list holds for the path (NoChecksum: none).
AfterContent(it, prev, r) ==
  IF r = "throw" THEN
    [it EXCEPT !.pc = "settled", !.res = "fetchthrow", !.rejected = TRUE]
  ELSE IF r = Null THEN
    [it EXCEPT !.pc = "settled", !.res = "nocontent"]
  ELSE IF ChecksumUnchanged(prev, createChecksum(r)) THEN
    [it EXCEPT !.pc = "settled", !.res = "unchanged",
               !.same = (prev = createChecksum(r))]
  ELSE
    [it EXCEPT !.pc = "submitting", !.calls = @ + 1,
               !.same = (prev = createChecksum(r))]

\* faulty variants of lines 242-300: the quota branch forgets
\* onFileProcessed; a per-file error is thrown on like a quota error
AfterProcessFile_QuotaSilent(it, outcome) ==
  CASE outcome = "ok" ->
         [it EXCEPT !.pc = "settled", !.res = "ok", !.processed = @ + 1]
    [] outcome = "error" ->
         [it EXCEPT !.pc = "settled", !.res = "error", !.errs = @ + 1,
                    !.processed = @ + 1]
    [] outcome = "quota" ->
         [it EXCEPT !.pc = "settled", !.res = "quota", !.rejected = TRUE]

AfterProcessFile_ErrorRejects(it, outcome) ==
  CASE outcome = "ok" ->
         [it EXCEPT !.pc = "settled", !.res = "ok", !.processed = @ + 1]
    [] outcome = "error" ->
         [it EXCEPT !.pc = "settled", !.res = "error", !.errs = @ + 1,
                    !.rejected = TRUE, !.processed = @ + 1]
    [] outcome = "quota" ->
         [it EXCEPT !.pc = "settled", !.res = "quota", !.rejected = TRUE,
                    !.processed = @ + 1]

\* lines 242-300: from processFile's outcome to the task's end
AfterProcessFile(it, outcome) ==
  CASE outcome = "ok" ->
         [it EXCEPT !.pc = "settled", !.res = "ok", !.processed = @ + 1]
    [] outcome = "error" ->
         [it EXCEPT !.pc = "settled", !.res = "error", !.errs = @ + 1,
                    !.processed = @ + 1]
    [] outcome = "quota" ->
         [it EXCEPT !.pc = "settled", !.res = "quota", !.rejected = TRUE,
                    !.processed = @ + 1]

\* ----- p-limit
ActiveCount(b) == Cardinality(DOMAIN batch[b].items)

\* faulty variants of p-limit: no limit, no slot at all
HasFreeSlot_Unlimited(activeCount) == TRUE

HasFreeSlot_Never(activeCount) == FALSE

\* enqueue's check before it starts a task
HasFreeSlot(activeCount) == activeCount < ConcurrencyLimit

Token(k, b, i) == [k |-> k, b |-> b, i |-> i]

WithItem(items, i, it) ==
  [x \in DOMAIN items \cup {i} |-> IF x = i THEN it ELSE items[x]]

WithoutItem(items, i) == [x \in DOMAIN items \ {i} |-> items[x]]

\* An invocation is forgotten once it returned and every task of it is gone.
Live(bs) ==
  [b \in {x \in DOMAIN bs : ~(bs[x].returned /\ bs[x].head = bs[x].n
                               /\ DOMAIN bs[x].items = {})} |-> bs[b]]

\* lines 384-388: the archive's content is in memory, and the await of
\* getFileNameContent resumes in a microtask
ContentIsInMemory(b) == sources[batch[b].src].type = "github"

\* queue.dequeue()(): the next task of invocation b runs to its first await.
\* rec is b's record with the finished task (if any) removed; pre are the
\* reactions queued before the task's own.
RunNext(b, rec, rest, pre) ==
  \E pass \in BOOLEAN :
    LET i == rec.head + 1
        it == StartOfFile(stopFlag, pass)
    IN /\ batch' = Live([batch EXCEPT ![b] =
              [rec EXCEPT !.head = i, !.items = WithItem(rec.items, i, it)]])
       /\ state' = IF it.sets > 0 THEN LoadingState(i - 1, rec.n) ELSE state
       /\ maxProgress' = IF it.sets > 0 /\ i > maxProgress THEN i
                         ELSE maxProgress
       /\ micro' = rest \o pre \o
              (IF it.pc = "settled" THEN <<Token("next", b, i)>>
               ELSE IF ContentIsInMemory(b) THEN <<Token("content", b, i)>>
               ELSE <<>>)

\* enqueue's reaction: start a task if a slot is free
TryStart ==
  /\ micro # <<>> /\ Head(micro).k = "try"
  /\ LET b == Head(micro).b IN
     IF HasFreeSlot(ActiveCount(b)) /\ batch[b].head < batch[b].n
     THEN RunNext(b, batch[b], Tail(micro), <<>>)
     ELSE /\ micro' = Tail(micro)
          /\ UNCHANGED <<batch, state, maxProgress>>
  /\ UNCHANGED <<project, sources, budget, tpc, srcIdx, nb, errors, stopFlag, crawl,
                 onErrors, quotaNb, stopCalled, calls>>
  /\ UNCHANGED apiVars

\* run's reaction to a settled task: next(), and Promise.all learns of it
TaskSettled ==
  /\ micro # <<>> /\ Head(micro).k = "next"
  /\ LET b == Head(micro).b
         i == Head(micro).i
         it == batch[b].items[i]
         \* Promise.all counts the fulfilled tasks until it settles
         nful == IF batch[b].all # "pending" \/ it.rejected THEN 0
                 ELSE batch[b].fulfilled + 1
         allNow == IF batch[b].all # "pending" THEN batch[b].all
                   ELSE IF it.rejected THEN "rejected"
                   ELSE IF nful = batch[b].n THEN "resolved"
                   ELSE "pending"
         pre == IF allNow # batch[b].all THEN <<Token("all", b, 0)>>
                ELSE <<>>
         rec == [batch[b] EXCEPT !.items = WithoutItem(@, i),
                                 !.fulfilled = nful, !.all = allNow]
     IN IF rec.head < rec.n
        THEN RunNext(b, rec, Tail(micro), pre)
        ELSE /\ batch' = Live([batch EXCEPT ![b] = rec])
             /\ micro' = Tail(micro) \o pre
             /\ UNCHANGED <<state, maxProgress>>
  /\ UNCHANGED <<project, sources, budget, tpc, srcIdx, nb, errors, stopFlag, crawl,
                 onErrors, quotaNb, stopCalled, calls>>
  /\ UNCHANGED apiVars

\* ----- generateEmbeddings
\* src, urls, n: the source and its candidates; head: the tasks dequeued so
\* far; items: the tasks p-limit counts as active; fulfilled, all:
\* Promise.all; returned: generateEmbeddings returned; processedContent: the
\* URLs line 456 pushed. History: quotaHead is head when processFile first
\* failed on quota (0: it never did), threw says a content fetch threw,
\* stopSeen says stopGeneratingEmbeddings ran while the invocation was live.
\* direct: the call came from outside trainAllSources (all is "checksums"
\* until its checksums arrive).
NewBatch(src, urls, n) ==
  [src |-> src, urls |-> urls, n |-> n, head |-> 0, items |-> <<>>,
   fulfilled |-> 0, all |-> "pending", returned |-> FALSE,
   processedContent |-> <<>>, quotaHead |-> 0, threw |-> FALSE,
   stopSeen |-> FALSE, direct |-> FALSE]

\* lines 315-325: generateEmbeddings up to the await of the checksums; bs
\* are the live invocations
GenerateEmbeddings(src, urls, n, bs) ==
  /\ errors' = <<>>
  /\ stopFlag' = FALSE
  /\ nb' = nb + 1
  /\ batch' = [b \in DOMAIN bs \cup {nb + 1} |->
                 IF b = nb + 1 THEN NewBatch(src, urls, n) ELSE bs[b]]
  /\ tpc' = "checksums"
  /\ srcIdx' = src

RECURSIVE Tokens(_, _, _)
Tokens(k, b, n) ==
  IF n = 0 THEN <<>> ELSE <<Token(k, b, 0)>> \o Tokens(k, b, n - 1)

\* the invocation that trainAllSources is awaiting
PassBatch ==
  CHOOSE b \in DOMAIN batch :
    /\ ~batch[b].direct
    /\ \A c \in DOMAIN batch : ~batch[c].direct => c <= b

\* lines 322-348: the checksums arrive; every index is handed to limit()
ChecksumsLoaded ==
  /\ micro = <<>> /\ tpc = "checksums"
  /\ tpc' = "all"
  /\ IF batch[PassBatch].n = 0
     THEN /\ micro' = <<Token("all", PassBatch, 0)>>
          /\ batch' = [batch EXCEPT ![PassBatch].all = "resolved"]
     ELSE /\ micro' = Tokens("try", PassBatch, batch[PassBatch].n)
          /\ UNCHANGED batch
  /\ UNCHANGED <<project, sources, budget, srcIdx, nb, state, errors, stopFlag, crawl,
                 onErrors, quotaNb, stopCalled, calls,
                 maxProgress>>
  /\ UNCHANGED apiVars

\* ----- _trainSource / trainAllSources
Root == 1

IsCrawl(src) == src.type = "website" /\ ~src.sitemap

\* lines 364-515: what the switch does with a source before its first real
\* await: nothing (the default case, and a crawl without a project, whose
\* generateEmbeddings returns at line 316 and discovers no link)
Skipped(src) ==
  \/ src.type \notin {"github", "motif", "website"}
  \/ IsCrawl(src) /\ ~project

RECURSIVE NextTrainable(_)
NextTrainable(k) ==
  IF k > Len(sources) THEN k
  ELSE IF ~Skipped(sources[k]) THEN k
  ELSE NextTrainable(k + 1)

\* lines 523-526: the loop of trainAllSources goes on from source k; st is
\* the TrainingState so far, bs are the live invocations and cr is what the
\* last crawl left in processedLinks and linksToProcess
TrainFrom(k, st, bs, cr) ==
  LET j == NextTrainable(k) IN
  IF j > Len(sources) THEN
    /\ tpc' = "done" /\ srcIdx' = j /\ state' = IdleState /\ batch' = bs
    /\ crawl' = cr
    /\ UNCHANGED <<nb, errors, stopFlag>>
  ELSE IF IsCrawl(sources[j]) THEN
    \* lines 474-481: the first round
    /\ crawl' = [processedLinks |-> <<>>, linksToProcess |-> <<Root>>]
    /\ GenerateEmbeddings(j, <<Root>>, 1, bs)
    /\ state' = st
  ELSE
    \* getGitHubFiles, getMotifPublicFileMetadata, fetchSitemapUrls
    /\ tpc' = "meta" /\ srcIdx' = j /\ state' = st /\ batch' = bs
    /\ crawl' = cr
    /\ UNCHANGED <<nb, errors, stopFlag>>

\* lines 520-529
TrainAllSources ==
  /\ micro = <<>> /\ tpc = "idle"
  /\ TrainFrom(1, FetchingDataState, batch, crawl)
  /\ UNCHANGED <<project, sources, budget, micro, onErrors, quotaNb, stopCalled, calls,
                 maxProgress>>
  /\ UNCHANGED apiVars

Min(a, b) == IF a < b THEN a ELSE b

\* a faulty variant of line 471: the whole sitemap is taken
SitemapUrls_All(sitemapUrls) == sitemapUrls

\* line 471: sitemapUrls.slice(0, 10)
SitemapUrls(sitemapUrls) ==
  SubSeq(sitemapUrls, 1, Min(Len(sitemapUrls), SitemapLimit))

\* the files an archive or a Motif project lists at most
MaxListed(type) == IF type = "github" THEN MaxFiles ELSE SmallFiles

\* lines 369-392, 404-423, 466-471: the archive, the file metadata or the
\* sitemap arrive and generateEmbeddings runs to its first await
MetaReturns ==
  /\ micro = <<>> /\ tpc = "meta"
  /\ \E listed \in IF sources[srcIdx].type = "website" THEN {0}
                    ELSE 0..Min(budget, MaxListed(sources[srcIdx].type)) :
       \* the paths of the files, or the URLs of the sitemap (its links)
       LET urls == IF sources[srcIdx].type = "website"
                   THEN SitemapUrls(sources[srcIdx].links)
                   ELSE [u \in 1..listed |-> u]
       IN /\ budget' = budget - listed
          /\ IF ~project
             THEN TrainFrom(srcIdx + 1, state, batch, crawl)
             ELSE /\ GenerateEmbeddings(srcIdx, urls, Len(urls), batch)
                  /\ UNCHANGED <<state, crawl>>
  /\ UNCHANGED <<project, sources, micro, onErrors, quotaNb, stopCalled, calls,
                 maxProgress>>
  /\ UNCHANGED apiVars

\* a faulty variant of lines 393-397, 424-429, 504-506: the failure of one
\* source ends the whole pass
MetaFails_Aborts ==
  /\ micro = <<>> /\ tpc = "meta"
  /\ onErrors' = Append(onErrors, srcIdx)
  /\ tpc' = "done" /\ state' = IdleState
  /\ UNCHANGED <<project, sources, budget, srcIdx, nb, batch, micro, errors,
                 stopFlag, crawl, quotaNb, stopCalled, calls,
                 maxProgress>>
  /\ UNCHANGED apiVars

\* lines 393-397, 424-429, 504-506: they fail
MetaFails ==
  /\ micro = <<>> /\ tpc = "meta"
  /\ onErrors' = Append(onErrors, srcIdx)
  /\ TrainFrom(srcIdx + 1, state, batch, crawl)
  /\ UNCHANGED <<project, sources, budget, micro, quotaNb, stopCalled, calls,
                 maxProgress>>
  /\ UNCHANGED apiVars

Range(s) == {s[x] : x \in DOMAIN s}

\* ----- utils: URLs
\* A string is the sequence of its pieces; the pieces in use are "https://",
\* "http://", "mailto:", "/", "?", "..", host names and words, none of which
\* begins another, so that one string begins another exactly when its
\* sequence begins the other's.
Schemes == {"https://", "http://"}

Hosts == {"a.com", "b.com"}

startsWith(str, prefix) ==
  Len(prefix) <= Len(str) /\ SubSeq(str, 1, Len(prefix)) = prefix

\* the index of the first piece c of str from position k on, 0 if none
RECURSIVE indexOf(_, _, _)
indexOf(str, c, k) ==
  IF k > Len(str) THEN 0
  ELSE IF str[k] = c THEN k
  ELSE indexOf(str, c, k + 1)

\* /^https?:\/\/[a-zA-Z]+/.test(url)
HasSchemeAndHost(url) ==
  Len(url) >= 2 /\ url[1] \in Schemes /\ url[2] \in Hosts

\* .replace(/\/+$/, '')
RECURSIVE StripTrailingSlashes(_)
StripTrailingSlashes(str) ==
  IF str # <<>> /\ str[Len(str)] = "/"
  THEN StripTrailingSlashes(SubSeq(str, 1, Len(str) - 1))
  ELSE str

\* new URL(url).pathname: from the first slash after the host up to the
\* query, "/" if there is none (dot segments are not among the inputs)
Pathname(url) ==
  LET q == indexOf(url, "?", 1)
      noQuery == IF q = 0 THEN url ELSE SubSeq(url, 1, q - 1)
      sl == indexOf(noQuery, "/", 2)
  IN IF sl = 0 THEN <<"/">> ELSE SubSeq(noQuery, sl, Len(noQuery))

\* new URL(url).protocol + "//" + hostname
ProtocolAndHostname(url) ==
  LET q == indexOf(url, "?", 1)
      noQuery == IF q = 0 THEN url ELSE SubSeq(url, 1, q - 1)
      sl == indexOf(noQuery, "/", 2)
  IN IF sl = 0 THEN noQuery ELSE SubSeq(noQuery, 1, sl - 1)

\* utils, toNormalizedUrl (useInsecureSchema not given)
toNormalizedUrl(url) ==
  LET withSchema == IF url # <<>> /\ url[1] \in Schemes THEN url
                    ELSE <<"https://">> \o url
  IN StripTrailingSlashes(ProtocolAndHostname(withSchema)
                            \o Pathname(withSchema))

\* utils, toNormalizedOrigin of a URL with a schema
toNormalizedOrigin(url) == ProtocolAndHostname(url)

\* utils, getUrlPath
getUrlPath(url) == Pathname(url)

\* utils, isHrefFromBaseUrl (undefined counts as false, line 486)
isHrefFromBaseUrl(baseUrl, href) ==
  IF HasSchemeAndHost(href)
  THEN startsWith(toNormalizedUrl(href), baseUrl)
  ELSE IF href # <<>> /\ href[1] = "/"
  THEN startsWith(href, getUrlPath(baseUrl))
  ELSE \A k \in 1..Len(href) : href[k] \notin Schemes \cup {"mailto:"}

\* utils, completeHrefWithBaseUrl
completeHrefWithBaseUrl(baseUrl, href) ==
  IF href # <<>> /\ href[1] = "/"
  THEN toNormalizedOrigin(baseUrl) \o href
  ELSE IF HasSchemeAndHost(href)
  THEN href
  ELSE baseUrl \o <<"/">> \o href

\* ----- utils: the path filter
\* A path is a sequence of pieces too: ".", "/", and words of letters and
\* digits; a glob has the pieces "*" and "**" besides.
SUPPORTED_EXTENSIONS == {"md", "mdx", "mdoc", "rst", "txt", "html", "htm"}

\* the pieces of str between the slashes, empty ones left out
RECURSIVE Segments(_, _)
Segments(str, cur) ==
  IF str = <<>> THEN (IF cur = <<>> THEN <<>> ELSE <<cur>>)
  ELSE IF Head(str) = "/"
  THEN (IF cur = <<>> THEN <<>> ELSE <<cur>>) \o Segments(Tail(str), <<>>)
  ELSE Segments(Tail(str), Append(cur, Head(str)))

IsWord(piece) == piece \notin {".", "/", "*", "**", "?", ".."} \cup Schemes

\* utils, getFileExtension: pathOrName.match(/\.(\w*)$/)?.[1]; Null when
\* there is no match
getFileExtension(pathOrName) ==
  LET n == Len(pathOrName) IN
  IF n >= 1 /\ pathOrName[n] = "." THEN ""
  ELSE IF n >= 2 /\ pathOrName[n - 1] = "." /\ IsWord(pathOrName[n])
  THEN pathOrName[n]
  ELSE Null

\* utils, isSupportedFileType
isSupportedFileType(pathOrName) ==
  LET extension == getFileExtension(pathOrName) IN
  IF extension \in {Null, ""} THEN TRUE
  ELSE extension \in SUPPORTED_EXTENSIONS

\* minimatch, one path segment against one segment of a glob: "*" stands
\* for any pieces of the segment
RECURSIVE SegmentMatches(_, _)
SegmentMatches(seg, pat) ==
  IF pat = <<>> THEN seg = <<>>
  ELSE IF Head(pat) = "*"
  THEN \E k \in 0..Len(seg) :
         SegmentMatches(SubSeq(seg, k + 1, Len(seg)), Tail(pat))
  ELSE seg # <<>> /\ Head(seg) = Head(pat)
       /\ SegmentMatches(Tail(seg), Tail(pat))

\* minimatch on the segments: "**" stands for any number of segments
RECURSIVE SegmentsMatch(_, _)
SegmentsMatch(segs, pats) ==
  IF pats = <<>> THEN segs = <<>>
  ELSE IF Head(pats) = <<"**">>
  THEN \/ SegmentsMatch(segs, Tail(pats))
       \/ segs # <<>> /\ SegmentsMatch(Tail(segs), pats)
  ELSE segs # <<>> /\ SegmentMatches(Head(segs), Head(pats))
       /\ SegmentsMatch(Tail(segs), Tail(pats))

minimatch(path, glob) ==
  SegmentsMatch(Segments(path, <<>>), Segments(glob, <<>>))

\* a faulty variant of matchesGlobs: every list of globs matches
matchesGlobs_Always(path, globs) == TRUE

\* utils, matchesGlobs
matchesGlobs(path, globs) ==
  \E g \in 1..Len(globs) : minimatch(path, globs[g])

\* utils, urlHasPath
urlHasPath(url) ==
  url # <<>> /\ url[1] \in Schemes /\ Pathname(url) # <<"/">>

\* utils, shouldIncludeFileWithPath
shouldIncludeFileWithPath(path, includeGlobs, excludeGlobs, isWebsiteSource) ==
  LET p == IF isWebsiteSource /\ ~urlHasPath(path)
              /\ (path = <<>> \/ path[Len(path)] # "/")
           THEN Append(path, "/") ELSE path
  IN IF \/ p # <<>> /\ p[1] = "."
        \/ \E k \in 1..(Len(p) - 1) : p[k] = "/" /\ p[k + 1] = "."
        \/ ~isSupportedFileType(p)
     THEN FALSE
     ELSE IF matchesGlobs(p, includeGlobs)
     THEN ~matchesGlobs(p, excludeGlobs)
     ELSE FALSE

\* ----- search: createKWICSnippet
\* Here a string is the sequence of its characters; "\n" is the newline.
MAX_LENGTH == 200

Whitespace == {" ", "\n"}

\* String.prototype.slice with 0 <= start
slice(str, start, end) ==
  SubSeq(str, start + 1, IF end < Len(str) THEN end ELSE Len(str))

\* String.prototype.trim
RECURSIVE trim(_)
trim(str) ==
  IF str # <<>> /\ Head(str) \in Whitespace THEN trim(Tail(str))
  ELSE IF str # <<>> /\ str[Len(str)] \in Whitespace
  THEN trim(SubSeq(str, 1, Len(str) - 1))
  ELSE str

\* String.prototype.indexOf(searchTerm): the first position, -1 if none
indexOfTerm(str, searchTerm) ==
  LET at == {i \in 0..Len(str) :
               /\ i + Len(searchTerm) <= Len(str)
               /\ SubSeq(str, i + 1, i + Len(searchTerm)) = searchTerm}
  IN IF at = {} THEN -1 ELSE CHOOSE i \in at : \A j \in at : i <= j

\* the lines of str
RECURSIVE Lines(_, _)
Lines(str, cur) ==
  IF str = <<>> THEN <<cur>>
  ELSE IF Head(str) = "\n" THEN <<cur>> \o Lines(Tail(str), <<>>)
  ELSE Lines(Tail(str), Append(cur, Head(str)))

\* remark().use(strip, {remove: ['heading', 'inlineCode'], keep: ['text']}):
\* the lines that are headings are dropped, the others end with a newline
RECURSIVE StripLines(_)
StripLines(lines) ==
  IF lines = <<>> THEN <<>>
  ELSE IF Head(lines) = <<>> \/ Head(Head(lines)) = "#"
  THEN StripLines(Tail(lines))
  ELSE Head(lines) \o <<"\n">> \o StripLines(Tail(lines))

StripMarkdown(content) == StripLines(Lines(content, <<>>))

\* .replace(/\s+/g, ' ')
RECURSIVE CollapseWhitespace(_)
CollapseWhitespace(str) ==
  IF str = <<>> THEN <<>>
  ELSE IF Head(str) \in Whitespace
  THEN IF Len(str) >= 2 /\ str[2] \in Whitespace
       THEN CollapseWhitespace(Tail(str))
       ELSE <<" ">> \o CollapseWhitespace(Tail(str))
  ELSE <<Head(str)>> \o CollapseWhitespace(Tail(str))

\* lines 53-62
PlainText(content) == CollapseWhitespace(StripMarkdown(trim(content)))

\* rawSnippet.split(/\s+/): an empty word stands at an end where the
\* snippet begins or ends with whitespace
RECURSIVE SplitWhitespace(_, _)
SplitWhitespace(str, cur) ==
  IF str = <<>> THEN <<cur>>
  ELSE IF Head(str) \in Whitespace
  THEN IF Len(str) >= 2 /\ str[2] \in Whitespace
       THEN SplitWhitespace(Tail(str), cur)
       ELSE <<cur>> \o SplitWhitespace(Tail(str), <<>>)
  ELSE SplitWhitespace(Tail(str), Append(cur, Head(str)))

\* words.join(' ')
RECURSIVE JoinWords(_)
JoinWords(words) ==
  IF words = <<>> THEN <<>>
  ELSE IF Len(words) = 1 THEN Head(words)
  ELSE Head(words) \o <<" ">> \o JoinWords(Tail(words))

\* Math.round(maxLength / 2)
HalfRounded(maxLength) == (maxLength + 1) \div 2

\* lines 45-81
createKWICSnippet(content, searchTerm, maxLength) ==
  LET plainText == PlainText(content)
      index == indexOfTerm(plainText, searchTerm)
      start == IF index - HalfRounded(maxLength) > 0
               THEN index - HalfRounded(maxLength) ELSE 0
      rawSnippet == slice(plainText, start, index + HalfRounded(maxLength))
      words == SplitWhitespace(rawSnippet, <<>>)
  IN IF index = -1 THEN slice(plainText, 0, maxLength)
     ELSE IF Len(words) > 3
     THEN JoinWords(SubSeq(words, 2, Len(words) - 1))
     ELSE JoinWords(words)

\* ----- the website of a crawl
\* line 434: the base URL of the website sources, data.url normalized
BaseUrl == toNormalizedUrl(<<"a.com", "/", "docs", "/">>)

PageName(page) == <<"p1", "p2", "p3">>[page]

\* the URL of a page of the website; page 1 is the one at data.url
Url(page) ==
  IF page = 1 THEN BaseUrl ELSE BaseUrl \o <<"/", PageName(page)>>

\* the page a URL stands for in processedLinks and linksToProcess (0: none)
PageOf(url) ==
  IF \E page \in 1..3 : Url(page) = url
  THEN CHOOSE page \in 1..3 : Url(page) = url
  ELSE 0

\* An href of a page is written <<form, page>>: "path" is /docs/p2, "full"
\* is https://a.com/docs/p2, "rel" is p2, "other" is https://b.com/p2.
Href(form, page) == <<form, page>>

HrefString(href) ==
  LET page == href[2] IN
  CASE href[1] = "path" -> Pathname(Url(page))
    [] href[1] = "full" -> Url(page)
    [] href[1] = "rel" -> <<PageName(page)>>
    [] OTHER -> <<"https://", "b.com", "/", PageName(page)>>

\* lines 488-490 and the page behind each completed URL
CompleteAll(hrefs) ==
  [x \in 1..Len(hrefs) |-> PageOf(completeHrefWithBaseUrl(BaseUrl, hrefs[x]))]

\* a faulty variant of lines 496-498: the visited links are not left out
NextFrontier_NoFilter(discoveredLinks, processedLinks) == discoveredLinks

\* lines 496-498
NextFrontier(discoveredLinks, processedLinks) ==
  SelectSeq(discoveredLinks, LAMBDA link : link \notin Range(processedLinks))

RECURSIVE FlatMapLinks(_, _)
FlatMapLinks(links, pages) ==
  IF pages = <<>> THEN <<>>
  ELSE [k \in 1..Len(links[Head(pages)]) |->
          HrefString(links[Head(pages)][k])]
       \o FlatMapLinks(links, Tail(pages))

RECURSIVE UniqFrom(_, _)
UniqFrom(s, acc) ==
  IF s = <<>> THEN acc
  ELSE UniqFrom(Tail(s), IF Head(s) \in Range(acc) THEN acc
                         ELSE Append(acc, Head(s)))

uniq(s) == UniqFrom(s, <<>>)

\* lines 483-494: links[p] lists the hrefs of page p; the hrefs are made
\* unique before they are completed
DiscoveredLinks(links, processedContent) ==
  CHOOSE discoveredLinks \in
    {CompleteAll(SelectSeq(uniq(hrefs),
                           LAMBDA href : isHrefFromBaseUrl(BaseUrl, href))) :
       hrefs \in {FlatMapLinks(links, processedContent)}} : TRUE

\* lines 349-353 and the caller's continuation: Promise.all settled
AllSettled ==
  /\ micro # <<>> /\ Head(micro).k = "all"
  /\ micro' = Tail(micro)
  /\ LET b == Head(micro).b
         bs == Live([batch EXCEPT ![b].returned = TRUE])
         src == sources[batch[b].src]
     IN IF batch[b].direct
        THEN \* line 353: the caller is not trainAllSources
             /\ batch' = bs /\ state' = IdleState
             /\ UNCHANGED <<tpc, srcIdx, nb, errors, stopFlag, crawl>>
        ELSE IF IsCrawl(src)
        THEN \* lines 483-498
             \E discoveredLinks \in
                  {DiscoveredLinks(src.links, batch[b].processedContent)},
                processed \in {crawl.processedLinks \o crawl.linksToProcess} :
             \E todo \in {NextFrontier(discoveredLinks, processed)} :
                IF todo = <<>>
                THEN TrainFrom(batch[b].src + 1, IdleState, bs,
                               [processedLinks |-> processed,
                                linksToProcess |-> todo])
                ELSE /\ crawl' = [processedLinks |-> processed,
                                  linksToProcess |-> todo]
                     /\ GenerateEmbeddings(batch[b].src, todo, Len(todo), bs)
                     /\ state' = IdleState
        ELSE TrainFrom(batch[b].src + 1, IdleState, bs, crawl)
  /\ UNCHANGED <<project, sources, budget, onErrors, quotaNb, stopCalled, calls,
                 maxProgress>>
  /\ UNCHANGED apiVars

\* ----- the awaits of a task
\* what getFileNameContent(index) may give: lines 384-388, 415-419, 445-458
ContentOutcomes(type) ==
  CASE type = "github" -> Contents
    [] type = "motif" -> Contents \cup {"throw"}
    [] OTHER -> Contents \cup {Null, "throw"}

\* the await of getFileNameContent(index) resumes for task i of invocation b
ContentOf(b, i, rest) ==
  \E r \in ContentOutcomes(sources[batch[b].src].type),
     prev \in StoredChecksums :
    LET it == AfterContent(batch[b].items[i], prev, r)
        \* line 456
        pushed == IF sources[batch[b].src].type = "website"
                     /\ r \in Contents
                  THEN Append(batch[b].processedContent, batch[b].urls[i])
                  ELSE batch[b].processedContent
    IN /\ batch' = [batch EXCEPT ![b].items[i] = it,
                                 ![b].processedContent = pushed,
                                 ![b].threw = @ \/ r = "throw"]
       /\ micro' = rest \o (IF it.pc = "settled" THEN <<Token("next", b, i)>>
                            ELSE <<>>)

\* the content of a Motif file or of a page arrives (or the fetch fails)
ContentReturns ==
  /\ micro = <<>>
  /\ \E b \in DOMAIN batch : \E i \in DOMAIN batch[b].items :
       /\ batch[b].items[i].pc = "fetching"
       /\ ContentOf(b, i, <<>>)
  /\ UNCHANGED <<project, sources, budget, tpc, srcIdx, nb, state, errors, stopFlag,
                 crawl, onErrors, quotaNb, stopCalled, calls,
                 maxProgress>>
  /\ UNCHANGED apiVars

\* the content of an archive entry: a promise resolved from the start
ContentResolved ==
  /\ micro # <<>> /\ Head(micro).k = "content"
  /\ ContentOf(Head(micro).b, Head(micro).i, Tail(micro))
  /\ UNCHANGED <<project, sources, budget, tpc, srcIdx, nb, state, errors, stopFlag,
                 crawl, onErrors, quotaNb, stopCalled, calls,
                 maxProgress>>
  /\ UNCHANGED apiVars

\* processFile(sourceId, file) returns or throws
ProcessFileReturns ==
  /\ micro = <<>>
  /\ \E b \in DOMAIN batch : \E i \in DOMAIN batch[b].items :
     \E outcome \in {"ok", "error", "quota"} :
       /\ batch[b].items[i].pc = "submitting"
       /\ LET it == AfterProcessFile(batch[b].items[i], outcome) IN
            /\ batch' = [batch EXCEPT ![b].items[i] = it,
                           ![b].quotaHead =
                             IF outcome = "quota" /\ @ = 0
                             THEN batch[b].head ELSE @]
            /\ micro' = <<Token("next", b, i)>>
            /\ errors' = IF it.errs > batch[b].items[i].errs
                         THEN Append(errors, ErrorString) ELSE errors
            /\ state' = IF outcome = "quota" THEN IdleState ELSE state
            /\ quotaNb' = IF outcome = "quota" /\ quotaNb = 0
                          THEN nb ELSE quotaNb
  /\ UNCHANGED <<project, sources, budget, tpc, srcIdx, nb, stopFlag, crawl,
                 onErrors, stopCalled, calls,
                 maxProgress>>
  /\ UNCHANGED apiVars

\* lines 531-534
StopGeneratingEmbeddings ==
  /\ micro = <<>>
  /\ stopFlag' = TRUE
  /\ stopCalled' = (stopCalled \/ tpc \notin {"idle", "done"})
  /\ state' = CancelRequestsState
  /\ batch' = [b \in DOMAIN batch |-> [batch[b] EXCEPT !.stopSeen = TRUE]]
  /\ UNCHANGED <<project, sources, budget, tpc, srcIdx, nb, micro, errors, crawl,
                 onErrors, quotaNb, calls,
                 maxProgress>>
  /\ UNCHANGED apiVars

\* ----- generateEmbeddings called by another consumer of the context
MaxCalls == 1

\* lines 304-325, 536-547: a component calls generateEmbeddings for n files
\* of source src while trainAllSources is at work; nothing in the function
\* or in the provider looks at TrainingState before it starts
GenerateEmbeddingsCalled ==
  /\ micro = <<>> /\ project
  /\ calls < MaxCalls
  /\ tpc \notin {"idle", "done"}
  /\ \E src \in 1..Len(sources), n \in 0..1 :
       /\ sources[src].type \in {"github", "motif"}
       /\ errors' = <<>>
       /\ stopFlag' = FALSE
       /\ nb' = nb + 1
       /\ batch' = [b \in DOMAIN batch \cup {nb + 1} |->
                      IF b = nb + 1
                      THEN [NewBatch(src, [u \in 1..n |-> u], n)
                              EXCEPT !.direct = TRUE, !.all = "checksums"]
                      ELSE batch[b]]
  /\ calls' = calls + 1
  /\ UNCHANGED <<project, sources, budget, tpc, srcIdx, micro, state, crawl,
                 onErrors, quotaNb, stopCalled, maxProgress>>
  /\ UNCHANGED apiVars

\* lines 322-348 of that call
CallChecksumsLoaded ==
  /\ micro = <<>>
  /\ \E b \in DOMAIN batch :
       /\ batch[b].direct /\ batch[b].all = "checksums"
       /\ IF batch[b].n = 0
          THEN /\ micro' = <<Token("all", b, 0)>>
               /\ batch' = [batch EXCEPT ![b].all = "resolved"]
          ELSE /\ micro' = Tokens("try", b, batch[b].n)
               /\ batch' = [batch EXCEPT ![b].all = "pending"]
  /\ UNCHANGED <<project, sources, budget, tpc, srcIdx, nb, state, errors,
                 stopFlag, crawl, onErrors, quotaNb, stopCalled, calls,
                 maxProgress>>
  /\ UNCHANGED apiVars

\* ----- the sources of a project
RECURSIVE SeqsUpTo(_, _)
SeqsUpTo(S, n) ==
  IF n = 0 THEN {<<>>}
  ELSE LET shorter == SeqsUpTo(S, n - 1) IN
       shorter \cup {Append(s, x) : s \in shorter, x \in S}

\* the hrefs of the pages 1, 2, 3 of a website: no href at all; or page 1
\* points twice to page 2 and to another host, page 2 back to page 1 and to
\* page 3, page 3 back to page 2
Graphs ==
  { << <<>>, <<>>, <<>> >>,
    << <<Href("path", 2), Href("full", 2), Href("other", 3)>>,
       <<Href("path", 1), Href("rel", 3)>>,
       <<Href("rel", 2)>> >> }

Source(type, sitemap, links) ==
  [type |-> type, sitemap |-> sitemap, links |-> links]

Sources ==
  {Source(t, FALSE, <<>>) : t \in {"github", "motif", "file-upload"}}
    \cup {Source("website", TRUE, [u \in 1..k |-> u]) : k \in 0..SmallFiles}
    \cup {Source("website", FALSE, g) : g \in Graphs}

\* the pages a crawl of the link graph fetches
CrawlPages(links) ==
  Cardinality({Root} \cup UNION {{links[p][k][2] : k \in 1..Len(links[p])} :
                                  p \in 1..Len(links)})

RECURSIVE CrawlFiles(_)
CrawlFiles(s) ==
  IF s = <<>> THEN 0
  ELSE (IF IsCrawl(Head(s)) THEN CrawlPages(Head(s).links)
        ELSE IF Head(s).sitemap THEN Len(Head(s).links) ELSE 0)
         + CrawlFiles(Tail(s))

Init ==
  /\ project \in BOOLEAN
  /\ sources \in {s \in SeqsUpTo(Sources, MaxSources) :
                    CrawlFiles(s) <= MaxFiles}
  /\ budget = MaxFiles - CrawlFiles(sources)
  /\ tpc = "idle"
  /\ srcIdx = 0
  /\ nb = 0
  /\ batch = <<>>
  /\ micro = <<>>
  /\ state = IdleState
  /\ errors = <<>>
  /\ stopFlag = FALSE
  /\ crawl = [processedLinks |-> <<>>, linksToProcess |-> <<>>]
  /\ onErrors = <<>>
  /\ quotaNb = 0
  /\ stopCalled = FALSE
  /\ calls = 0
  /\ maxProgress = 0
  /\ fn = NoCall /\ req = NoRequest

Next ==
  \/ TrainAllSources
  \/ MetaReturns
  \/ MetaFails
  \/ ChecksumsLoaded
  \/ TryStart
  \/ TaskSettled
  \/ AllSettled
  \/ ContentReturns
  \/ ContentResolved
  \/ ProcessFileReturns
  \/ StopGeneratingEmbeddings

Spec == Init /\ [][Next]_vars

\* the projects with one source
InitOne == Init /\ Len(sources) = 1

SpecOne == InitOne /\ [][Next]_vars

\* the projects with an archive followed by a Motif project
InitArchive ==
  /\ Init /\ Len(sources) = 2
  /\ sources[1].type = "github" /\ sources[2].type = "motif"

SpecArchive == InitArchive /\ [][Next]_vars

\* the provider after construction, with the sources srcs and files files
\* to list
Start(srcs, files) ==
  /\ project \in BOOLEAN
  /\ sources = srcs
  /\ budget = files
  /\ tpc = "idle"
  /\ srcIdx = 0
  /\ nb = 0
  /\ batch = <<>>
  /\ micro = <<>>
  /\ state = IdleState
  /\ errors = <<>>
  /\ stopFlag = FALSE
  /\ crawl = [processedLinks |-> <<>>, linksToProcess |-> <<>>]
  /\ onErrors = <<>>
  /\ quotaNb = 0
  /\ stopCalled = FALSE
  /\ calls = 0
  /\ maxProgress = 0
  /\ fn = NoCall /\ req = NoRequest

\* the projects whose sources list few files
InitFew == \E srcs \in SeqsUpTo(Sources, MaxSources) : Start(srcs, SmallFiles)

SpecFew == InitFew /\ [][Next]_vars

\* the projects with one source that lists few files
InitOneFew == InitFew /\ Len(sources) = 1

\* The event loop runs every queued reaction and every request to the
\* network settles; stopGeneratingEmbeddings is up to the user.
Steps ==
  \/ TrainAllSources
  \/ MetaReturns
  \/ MetaFails
  \/ ChecksumsLoaded
  \/ TryStart
  \/ TaskSettled
  \/ AllSettled
  \/ ContentReturns
  \/ ContentResolved
  \/ ProcessFileReturns

SpecLive == InitOneFew /\ [][Next]_vars /\ WF_vars(Steps)

\* the same for the projects of up to MaxSources sources
SpecLiveFew == InitFew /\ [][Next]_vars /\ WF_vars(Steps)

\* the projects with one source, among them the sitemaps of up to MaxSitemap
\* URLs
MaxSitemap == 11

InitSitemap ==
  \E src \in Sources \cup {Source("website", TRUE, [u \in 1..k |-> u]) :
                              k \in 0..MaxSitemap} :
    Start(<<src>>, SmallFiles)

\* the steps of a pass as long as no content fetch and no processFile call
\* has been answered
NextUnanswered ==
  \/ TrainAllSources
  \/ MetaReturns
  \/ MetaFails
  \/ ChecksumsLoaded
  \/ TryStart
  \/ TaskSettled
  \/ AllSettled
  \/ ContentResolved
  \/ StopGeneratingEmbeddings

SpecSitemap == InitSitemap /\ [][NextUnanswered]_vars

\* ----- calls of the functions of utils
trainVars == <<project, sources, budget, tpc, srcIdx, nb, batch, micro, state,
               errors, stopFlag, crawl, onErrors, quotaNb, stopCalled, calls,
               maxProgress>>

\* a provider without sources, on which nothing is called
NoTraining ==
  /\ project = TRUE
  /\ sources = <<>>
  /\ budget = 0
  /\ tpc = "idle"
  /\ srcIdx = 0
  /\ nb = 0
  /\ batch = <<>>
  /\ micro = <<>>
  /\ state = IdleState
  /\ errors = <<>>
  /\ stopFlag = FALSE
  /\ crawl = [processedLinks |-> <<>>, linksToProcess |-> <<>>]
  /\ onErrors = <<>>
  /\ quotaNb = 0
  /\ stopCalled = FALSE
  /\ calls = 0
  /\ maxProgress = 0

\* the data.url of website sources and the hrefs of their pages
DataUrls ==
  { <<"a.com">>, <<"a.com", "/", "docs", "/">>,
    <<"https://", "a.com", "/", "docs">> }

Hrefs ==
  { <<"https://", "a.com", "/", "docs", "/", "p2">>,
    <<"https://", "a.com", "/", "docs">>,
    <<"https://", "a.com", "/", "docs", "/", "p2", "/">>,
    <<"https://", "a.com", "/", "docs", "/", "p2", "?", "x">>,
    <<"https://", "a.com", "/", "docs", "-old", "/", "p2">>,
    <<"https://", "a.com", "/", "blog">>,
    <<"https://", "a.com">>,
    <<"http://", "a.com", "/", "docs", "/", "p2">>,
    <<"https://", "b.com", "/", "docs">>,
    <<"https://", "a.com", ".evil.io", "/", "docs">>,
    <<"/", "docs", "/", "p2">>,
    <<"/", "docs">>,
    <<"/", "docs", "-old", "/", "p2">>,
    <<"/", "blog">>,
    <<"/">>,
    <<"p2">>,
    <<"p2", "/", "p3">>,
    <<"..", "/", "blog">>,
    <<"mailto:", "x">>,
    <<>> }

HrefCalls ==
  [f : {"isHrefFromBaseUrl"}, baseUrl : {toNormalizedUrl(u) : u \in DataUrls},
   href : Hrefs, done : {FALSE}, result : {FALSE}, completed : {<<>>}]

\* lines 486-491: one href goes through the filter and, if it stays, through
\* the completion
FilterAndComplete ==
  /\ fn.f = "isHrefFromBaseUrl" /\ ~fn.done
  /\ LET keep == isHrefFromBaseUrl(fn.baseUrl, fn.href) IN
     fn' = [fn EXCEPT !.done = TRUE, !.result = keep,
                      !.completed =
                        IF keep THEN completeHrefWithBaseUrl(fn.baseUrl, fn.href)
                        ELSE <<>>]
  /\ UNCHANGED <<trainVars, req>>

\* the paths of files and pages, and the globs of a project's configuration
Paths ==
  { <<".", "git", "/", "config">>,
    <<".", "env">>,
    <<"docs", "/", ".", "hidden", "/", "a", ".", "md">>,
    <<"docs", "/", "a", ".", "md">>,
    <<"docs", "/", "a", ".", "xyz">>,
    <<"docs", "/", "a">>,
    <<"docs", "/", "a", ".">>,
    <<"docs", "/", "sub", "/", "c", ".", "mdx">>,
    <<"blog", "/", "b", ".", "md">>,
    <<"a", ".", "md">>,
    <<"readme", ".", "xyz">> }

PageUrls ==
  { <<"https://", "a.com">>,
    <<"https://", "a.com", "/", "docs", "/", "p2">>,
    <<"https://", "a.com", "/", "favicon", ".", "ico">> }

IncludeGlobs ==
  { <<>>,
    << <<"**">> >>,
    << <<"docs", "/", "**">> >>,
    << <<"**", "/", "*", ".", "md">> >>,
    << <<"blog", "/", "**">>, <<"docs", "/", "**">> >> }

ExcludeGlobs ==
  { <<>>,
    << <<"docs", "/", "**">> >>,
    << <<"**", "/", "a", ".", "md">> >> }

FilterCalls ==
  [f : {"shouldIncludeFileWithPath"}, path : Paths, includeGlobs : IncludeGlobs,
   excludeGlobs : ExcludeGlobs, isWebsiteSource : {FALSE}, done : {FALSE},
   result : {FALSE}]
  \cup
  [f : {"shouldIncludeFileWithPath"}, path : PageUrls,
   includeGlobs : {<< <<"**">> >>}, excludeGlobs : {<<>>},
   isWebsiteSource : BOOLEAN, done : {FALSE}, result : {FALSE}]

\* lines 199-208 of the provider: the filter is applied to a path
ApplyFilter ==
  /\ fn.f = "shouldIncludeFileWithPath" /\ ~fn.done
  /\ fn' = [fn EXCEPT !.done = TRUE,
                      !.result = shouldIncludeFileWithPath(
                                   fn.path, fn.includeGlobs, fn.excludeGlobs,
                                   fn.isWebsiteSource)]
  /\ UNCHANGED <<trainVars, req>>

\* the contents of sections: up to MaxWords words, with or without a heading
MaxWords == 4

Words == {<<"a">>, <<"b", "b">>, <<"f", "o", "x">>}

Sentences == {JoinWords(ws) : ws \in SeqsUpTo(Words, MaxWords) \ {<<>>}}

SectionContents ==
  Sentences \cup {<<"#", " ", "t", "\n">> \o c : c \in Sentences}

SnippetCalls ==
  [f : {"createKWICSnippet"}, content : SectionContents,
   searchTerm : {<<"f", "o", "x">>, <<"b", "b", " ", "a">>},
   maxLength : {MAX_LENGTH, 6, 3}, done : {FALSE}, result : {<<>>}]

\* line 208: the snippet of one match
MakeSnippet ==
  /\ fn.f = "createKWICSnippet" /\ ~fn.done
  /\ fn' = [fn EXCEPT !.done = TRUE,
                      !.result = createKWICSnippet(fn.content, fn.searchTerm,
                                                   fn.maxLength)]
  /\ UNCHANGED <<trainVars, req>>

UtilsCalls == HrefCalls \cup FilterCalls \cup SnippetCalls

InitUtils == NoTraining /\ req = NoRequest /\ fn \in UtilsCalls

NextUtils ==
  \/ FilterAndComplete
  \/ ApplyFilter
  \/ MakeSnippet

SpecUtils == InitUtils /\ [][NextUtils]_vars

\* trainAllSources and one more caller of generateEmbeddings
NextCalls == Next \/ GenerateEmbeddingsCalled \/ CallChecksumsLoaded

SpecCalls == InitOneFew /\ [][NextCalls]_vars

\* ----- search: the handler of /api/v1/search
\* A request parameter is <<>> when it is missing and <<value>> otherwise;
\* the same holds of the error and the data of a reply of the database.
MAX_SEARCH_RESULTS == 20

DefaultLimit == 10

allowedMethods == {"GET"}

\* "" is a request without a method
Methods == {"GET", "POST", "OPTIONS", ""}

Fox == <<"f", "o", "x">>

Queries ==
  {<<>>} \cup {<<q>> : q \in {<<>>, <<" ">>, <<" ", "\n">>, Fox, <<" ">> \o Fox}}

LimitParams ==
  {<<>>} \cup {<<v>> : v \in {<<"a", "b", "c">>, <<"5">>, <<"2", "0">>,
                              <<"2", "1">>, <<"1", "0", "0">>, <<"-", "1">>}}

DigitChars == <<"0", "1", "2", "3", "4", "5", "6", "7", "8", "9">>

IsDigit(c) == \E d \in DOMAIN DigitChars : DigitChars[d] = c

DigitValue(c) == (CHOOSE d \in DOMAIN DigitChars : DigitChars[d] = c) - 1

\* the number written by the leading digits of str, after acc
RECURSIVE ParseDigits(_, _)
ParseDigits(str, acc) ==
  IF str = <<>> \/ ~IsDigit(Head(str)) THEN acc
  ELSE ParseDigits(Tail(str), 10 * acc + DigitValue(Head(str)))

\* safeParseInt of lib/utils.edge: the integer that value begins with,
\* fallback when there is none
safeParseInt(value, fallback) ==
  IF value = <<>> THEN fallback
  ELSE LET str == value[1]
           negative == str # <<>> /\ Head(str) = "-"
           digits == IF negative THEN Tail(str) ELSE str
       IN IF digits = <<>> \/ ~IsDigit(Head(digits)) THEN fallback
          ELSE IF negative THEN 0 - ParseDigits(digits, 0)
          ELSE ParseDigits(digits, 0)

Limit_Unbounded(limitParam) == safeParseInt(limitParam, DefaultLimit)

\* lines 133-136
Limit(limitParam) ==
  Min(MAX_SEARCH_RESULTS, safeParseInt(limitParam, DefaultLimit))

IsEmptyQuery_NoTrim(query) == query = <<>> \/ query[1] = <<>>

\* line 138: !query || query.trim() === ''
IsEmptyQuery(query) == query = <<>> \/ trim(query[1]) = <<>>

NoResponse == [status |-> 0, error |-> <<>>, data |-> <<>>]

\* a request as it arrives
Requests ==
  [pc : {"received"}, method : Methods, query : Queries, limit : LimitParams,
   rpc : {<<>>}, fts : {<<>>}, joins : {<<>>}, files : {<<>>},
   res : {NoResponse}]

\* lines 88-156: up to the call of the full-text query
Handle ==
  /\ req.pc = "received"
  /\ req' =
       IF req.method = "OPTIONS"
       THEN \* line 89: a Response is returned, res is not used
            [req EXCEPT !.pc = "returned"]
       ELSE IF req.method \notin allowedMethods
       THEN [req EXCEPT !.pc = "responded",
                        !.res = [status |-> 405,
                                 error |-> <<"Method Not Allowed">>,
                                 data |-> <<>>]]
       ELSE IF IsEmptyQuery(req.query)
       THEN [req EXCEPT !.pc = "responded",
                        !.res = [status |-> 200, error |-> <<>>,
                                 data |-> << <<>> >>]]
       ELSE [req EXCEPT !.pc = "fts",
                        !.rpc = <<[search_term |-> req.query[1],
                                   match_count |-> Limit(req.limit)]>>]
  /\ UNCHANGED <<trainVars, fn>>

\* the rows of the full-text index and of the table of files
MaxMatches == 3

FileIds == {1, 2, 10}

\* two sections, one without meta and one with
Sections ==
  {[content |-> Fox \o <<" ", "a", " ", "a", " ", "a">>, meta |-> <<>>],
   [content |-> <<"#", " ", "t", "\n", "b", "b", " ">> \o Fox,
    meta |-> <<"m">>]}

Matches ==
  {[file_id |-> id, content |-> section.content, meta |-> section.meta] :
     id \in FileIds, section \in Sections}

ErrorMessages == {"", "fts failed"}

\* the replies of supabaseAdmin.rpc('fts', ...)
FtsReplies ==
  [error : {<<>>} \cup {<<m>> : m \in ErrorMessages},
   data : {<<>>} \cup {<<d>> : d \in SeqsUpTo(Matches, MaxMatches)}]

\* line 163: error?.message || 'Error retrieving sections'
ErrorMessage_Default(error) == "Error retrieving sections"

ErrorMessage(error) ==
  IF error # <<>> /\ error[1] # "" THEN error[1]
  ELSE "Error retrieving sections"

\* String(n) as the sequence of its digits
RECURSIVE Digits(_)
Digits(n) == IF n < 10 THEN <<n>> ELSE Append(Digits(n \div 10), n % 10)

\* a < b as strings
RECURSIVE StringLess(_, _)
StringLess(a, b) ==
  IF b = <<>> THEN FALSE
  ELSE IF a = <<>> THEN TRUE
  ELSE IF Head(a) # Head(b) THEN Head(a) < Head(b)
  ELSE StringLess(Tail(a), Tail(b))

\* Array.prototype.sort without a comparator orders by String(element)
RECURSIVE sort(_)
sort(s) ==
  IF s = <<>> THEN <<>>
  ELSE LET least == CHOOSE i \in DOMAIN s :
                      \A j \in DOMAIN s :
                        ~StringLess(Digits(s[j]), Digits(s[i]))
       IN <<s[least]>> \o
          sort(SubSeq(s, 1, least - 1) \o SubSeq(s, least + 1, Len(s)))

RECURSIVE FileIdsOf(_)
FileIdsOf(data) ==
  IF data = <<>> THEN <<>> ELSE <<Head(data).file_id>> \o FileIdsOf(Tail(data))

\* line 174
SortedFileIds(data) == sort(uniq(FileIdsOf(data)))

\* the row of a file, with its source
FileRow(id) ==
  [id |-> id, path |-> <<"file", id>>, meta |-> <<"title", id>>,
   sources |-> [type |-> "github", data |-> <<"repo">>]]

\* the increasing sequence of the elements of a set of numbers
RECURSIVE Ascending(_)
Ascending(S) ==
  IF S = {} THEN <<>>
  ELSE LET least == CHOOSE x \in S : \A y \in S : x <= y
       IN <<least>> \o Ascending(S \ {least})

RECURSIVE RowsOf(_)
RowsOf(ids) ==
  IF ids = <<>> THEN <<>> ELSE <<FileRow(Head(ids))>> \o RowsOf(Tail(ids))

\* the replies of .from('files').select(...).in('id', fileIds): no data, or
\* the rows of some of the files asked for
JoinReplies(fileIds) ==
  {<<>>} \cup {<<RowsOf(Ascending(S))>> : S \in SUBSET Range(fileIds)}

\* line 184: _fileData?.find((d) => d.id === fileId), <<>> when not found
FindFile(fileData, fileId) ==
  IF fileData = <<>> THEN <<>>
  ELSE LET found == SelectSeq(fileData[1], LAMBDA d : d.id = fileId)
       IN IF found = <<>> THEN <<>> ELSE <<Head(found)>>

AppendSection_Overwrite(sections, section) == <<section>>

\* lines 204-210
AppendSection(sections, section) == Append(sections, section)

\* lines 182-212: resultsByFile after the loop over data
RECURSIVE GroupByFile(_, _, _, _)
GroupByFile(data, fileData, query, resultsByFile) ==
  IF data = <<>> THEN resultsByFile
  ELSE LET result == Head(data)
           fileId == result.file_id
           fileDataByFile == FindFile(fileData, fileId)
           sections == IF fileId \in DOMAIN resultsByFile
                       THEN resultsByFile[fileId].sections ELSE <<>>
           entry ==
             [path |-> fileDataByFile[1].path,
              meta |-> fileDataByFile[1].meta,
              source |-> [type |-> fileDataByFile[1].sources.type,
                          data |-> fileDataByFile[1].sources.data],
              score |-> 0,
              sections |->
                AppendSection(sections,
                  [meta |-> result.meta,
                   content |-> createKWICSnippet(result.content, query,
                                                 MAX_LENGTH)])]
       IN IF fileDataByFile = <<>>
          THEN GroupByFile(Tail(data), fileData, query, resultsByFile)
          ELSE GroupByFile(Tail(data), fileData, query,
                 [k \in DOMAIN resultsByFile \cup {fileId} |->
                    IF k = fileId THEN entry ELSE resultsByFile[k]])

\* line 220: Object.values lists the integer keys in increasing order
RECURSIVE ValuesOf(_, _)
ValuesOf(obj, keys) ==
  IF keys = <<>> THEN <<>>
  ELSE <<obj[Head(keys)]>> \o ValuesOf(obj, Tail(keys))

ObjectValues(obj) == ValuesOf(obj, Ascending(DOMAIN obj))

\* lines 146-178: the full-text query returns
FtsReturns ==
  /\ req.pc = "fts"
  /\ \E reply \in FtsReplies :
       req' =
         IF reply.error # <<>> \/ reply.data = <<>>
         THEN [req EXCEPT !.pc = "responded", !.fts = <<reply>>,
                          !.res = [status |-> 400,
                                   error |-> <<ErrorMessage(reply.error)>>,
                                   data |-> <<>>]]
         ELSE [req EXCEPT !.pc = "join", !.fts = <<reply>>,
                          !.joins = <<SortedFileIds(reply.data[1])>>]
  /\ UNCHANGED <<trainVars, fn>>

\* lines 175-221: the join returns
JoinReturns ==
  /\ req.pc = "join"
  /\ \E fileData \in JoinReplies(req.joins[1]) :
       req' = [req EXCEPT
                 !.pc = "responded", !.files = <<fileData>>,
                 !.res = [status |-> 200, error |-> <<>>,
                          data |-> <<ObjectValues(
                                       GroupByFile(req.fts[1].data[1],
                                                   fileData, req.query[1],
                                                   <<>>))>>]]
  /\ UNCHANGED <<trainVars, fn>>

InitSearch == NoTraining /\ fn = NoCall /\ req \in Requests

NextSearch ==
  \/ Handle
  \/ FtsReturns
  \/ JoinReturns

SpecSearch == InitSearch /\ [][NextSearch]_vars

\* ----- subscriptions: the handler of /api/subscriptions/cancel
CancelMethods == {"POST", "GET", "DELETE", ""}

\* a faulty variant of line 12: every method is allowed
cancelAllowedMethods_Any == CancelMethods

\* line 12
cancelAllowedMethods == {"POST"}

TeamIds == {1, 2}

\* the columns of a team that the handler reads or writes
NoCustomer ==
  [stripe_customer_id |-> <<>>, stripe_price_id |-> <<>>,
   billing_cycle_start |-> <<>>]

TeamRows ==
  {NoCustomer,
   [stripe_customer_id |-> <<"cus_1">>, stripe_price_id |-> <<"price_pro">>,
    billing_cycle_start |-> <<"2023-05-01">>],
   [stripe_customer_id |-> <<"cus_2">>, stripe_price_id |-> <<>>,
    billing_cycle_start |-> <<>>]}

\* a request as it arrives: teams is the table, teams0 the table at that
\* moment, calls the requests made to Supabase and Stripe so far
CancelRequests ==
  {[api |-> "cancel", pc |-> "arrived", method |-> m, teamId |-> id,
    teams |-> t, teams0 |-> t, calls |-> <<>>, user |-> <<>>,
    deleted |-> <<>>, subscriptions |-> <<>>, res |-> NoResponse] :
     m \in CancelMethods, id \in TeamIds \cup {3}, t \in [TeamIds -> TeamRows]}

IsCancel == req.pc # "none" /\ "api" \in DOMAIN req /\ req.api = "cancel"

Respond(r, status, error) ==
  [r EXCEPT !.pc = "responded",
            !.res = [status |-> status, error |-> error, data |-> <<>>]]

\* an exception leaves the handler: Next answers 500
Throw(r) ==
  [r EXCEPT !.pc = "threw",
            !.res = [status |-> 500, error |-> <<>>, data |-> <<>>]]

Call(r, pc, name) == [r EXCEPT !.pc = pc, !.calls = Append(@, name)]

\* lines 18-26
CancelHandle ==
  /\ IsCancel /\ req.pc = "arrived"
  /\ req' = IF req.method \notin cancelAllowedMethods
            THEN Respond(req, 405, <<"Method Not Allowed">>)
            ELSE Call(req, "getSession", "auth.getSession")
  /\ UNCHANGED <<trainVars, fn>>

\* lines 24-36: the session arrives
GetSessionReturns ==
  /\ IsCancel /\ req.pc = "getSession"
  /\ \E user \in BOOLEAN :
       req' = IF ~user
              THEN Respond([req EXCEPT !.user = <<user>>], 401,
                           <<"Unauthorized">>)
              ELSE Call([req EXCEPT !.user = <<user>>], "select",
                        "teams.select")
  /\ UNCHANGED <<trainVars, fn>>

\* the replies of the select: an error, no row, or the row of the team
SelectReplies ==
  {[error |-> TRUE, data |-> <<>>], [error |-> FALSE, data |-> <<>>]}
    \cup (IF req.teamId \in TeamIds
          THEN {[error |-> FALSE, data |-> <<req.teams[req.teamId]>>]}
          ELSE {})

\* line 38
CustomerNotFound(reply) ==
  reply.error \/ reply.data = <<>> \/ reply.data[1].stripe_customer_id = <<>>

\* lines 32-45: the row of the team arrives
SelectReturns ==
  /\ IsCancel /\ req.pc = "select"
  /\ \E reply \in SelectReplies :
       req' = IF CustomerNotFound(reply)
              THEN Respond(req, 400, <<"Customer not found.">>)
              ELSE Call(req, "list", "subscriptions.list")
  /\ UNCHANGED <<trainVars, fn>>

\* the subscriptions Stripe may list with limit 1
SubscriptionLists == {<<>>, <<[id |-> ""]>>, <<[id |-> "sub_1"]>>}

\* lines 42-52: the list of subscriptions arrives, or the call fails
ListReturns ==
  /\ IsCancel /\ req.pc = "list"
  /\ \/ req' = Throw(req)
     \/ \E data \in SubscriptionLists :
          LET r == [req EXCEPT !.subscriptions = <<data>>] IN
          req' = IF data = <<>>
                 THEN \* line 47: subscription.data[0] is undefined
                      Throw(r)
                 ELSE IF data[1].id = ""
                 THEN Respond(r, 400, <<"No subscription found.">>)
                 ELSE Call(r, "del", "subscriptions.del")
  /\ UNCHANGED <<trainVars, fn>>

\* what subscriptions.del may resolve to
Deletions == {<<>>, <<[id |-> ""]>>, <<[id |-> "sub_1"]>>}

DeleteConfirmed_Always(deleted) == TRUE

\* line 53: deleted?.id
DeleteConfirmed(deleted) == deleted # <<>> /\ deleted[1].id # ""

\* lines 52-66: the deletion arrives, or the call fails
DelReturns ==
  /\ IsCancel /\ req.pc = "del"
  /\ \/ req' = Throw(req)
     \/ \E deleted \in Deletions :
          LET r == [req EXCEPT !.deleted = <<deleted>>] IN
          req' = IF ~DeleteConfirmed(deleted)
                 THEN Respond(r, 400, <<"Unable to cancel subscription.">>)
                 ELSE Call(r, "update", "teams.update")
  /\ UNCHANGED <<trainVars, fn>>

\* lines 59-68: the update was applied or not; its result is not looked at
UpdateReturns ==
  /\ IsCancel /\ req.pc = "update"
  /\ \E applied \in BOOLEAN :
       req' = [req EXCEPT
                 !.pc = "responded",
                 !.teams = IF applied
                           THEN [@ EXCEPT ![req.teamId] = NoCustomer]
                           ELSE @,
                 !.res = [status |-> 200, error |-> <<>>, data |-> <<>>]]
  /\ UNCHANGED <<trainVars, fn>>

InitCancel == NoTraining /\ fn = NoCall /\ req \in CancelRequests

NextCancel ==
  \/ CancelHandle
  \/ GetSessionReturns
  \/ SelectReturns
  \/ ListReturns
  \/ DelReturns
  \/ UpdateReturns

SpecCancel == InitCancel /\ [][NextCancel]_vars

\* ----- sections: the handler of /api/v1/sections/[project]
sectionsAllowedMethods == {"GET"}

\* a request as it arrives; fromMarkprompt is what isRequestFromMarkprompt
\* says of its origin
SectionsRequests ==
  [api : {"sections"}, pc : {"arrived"}, method : Methods,
   project : {<<>>, <<"p1">>}, prompt : {<<>>, <<"">>, <<"how">>},
   fromMarkprompt : BOOLEAN, calls : {<<>>}, res : {NoResponse}]

IsSections == req.pc # "none" /\ "api" \in DOMAIN req /\ req.api = "sections"

\* lines 34-62
SectionsHandle ==
  /\ IsSections /\ req.pc = "arrived"
  /\ req' =
       IF req.method = "OPTIONS"
       THEN \* line 35: a Response is returned, res is not used
            [req EXCEPT !.pc = "returned"]
       ELSE IF req.method \notin sectionsAllowedMethods
       THEN Respond(req, 405, <<"Method Not Allowed">>)
       ELSE IF req.project = <<>>
       THEN Respond(req, 400, <<"Project not found">>)
       ELSE IF req.prompt = <<>> \/ req.prompt[1] = ""
       THEN Respond(req, 400, <<"No prompt provided">>)
       ELSE Call(req, "rateLimit", "checkSectionsRateLimits")
  /\ UNCHANGED <<trainVars, fn>>

\* lines 59-81: the rate limit is known, or the check fails
RateLimitReturns ==
  /\ IsSections /\ req.pc = "rateLimit"
  /\ \/ req' = Throw(req)
     \/ \E success \in BOOLEAN :
          req' = IF ~success THEN Respond(req, 429, <<"Too many requests">>)
                 ELSE IF ~req.fromMarkprompt
                 THEN Call(req, "tier", "getTeamTierInfo")
                 ELSE Call(req, "key", "getBYOOpenAIKey")
  /\ UNCHANGED <<trainVars, fn>>

\* lines 73-81: the tier of the team: none, one without access, one with
TierReturns ==
  /\ IsSections /\ req.pc = "tier"
  /\ \/ req' = Throw(req)
     \/ \E teamTierInfo \in {"none", "hobby", "enterprise"} :
          req' = IF teamTierInfo # "enterprise"
                 THEN Respond(req, 401, <<"Enterprise plans only">>)
                 ELSE Call(req, "key", "getBYOOpenAIKey")
  /\ UNCHANGED <<trainVars, fn>>

\* lines 81-96: the key arrives, or the call fails
KeyReturns ==
  /\ IsSections /\ req.pc = "key"
  /\ \/ req' = Throw(req)
     \/ req' = Call(req, "match", "getMatchingSections")
  /\ UNCHANGED <<trainVars, fn>>

\* lines 86-122: the sections arrive, or getMatchingSections throws an
\* ApiError with its code, or something else
MatchReturns ==
  /\ IsSections /\ req.pc = "match"
  /\ \/ \E code \in {429, 500} : req' = Respond(req, code, <<"ApiError">>)
     \/ req' = Respond(req, 400, <<"Error">>)
     \/ \E n \in 0..2 :
          req' = [req EXCEPT !.pc = "responded",
                             !.res = [status |-> 200, error |-> <<>>,
                                      data |-> <<[k \in 1..n |-> k]>>]]
  /\ UNCHANGED <<trainVars, fn>>

NextSections ==
  \/ SectionsHandle
  \/ RateLimitReturns
  \/ TierReturns
  \/ KeyReturns
  \/ MatchReturns

\* a request to one of the three endpoints
InitApi ==
  /\ NoTraining /\ fn = NoCall
  /\ req \in Requests \cup CancelRequests \cup SectionsRequests

NextApi == NextSearch \/ NextCancel \/ NextSections

SpecApi == InitApi /\ [][NextApi]_vars

\* ----- properties of a task
\* the tasks p-limit counts as active, as <<invocation, index>>
Tasks == UNION {{<<b, i>> : i \in DOMAIN batch[b].items} : b \in DOMAIN batch}

Task(t) == batch[t[1]].items[t[2]]

\* the task has its content: getFileNameContent returned something
GotContent(it) ==
  /\ it.fetches = 1 /\ it.pc # "fetching"
  /\ it.res \notin {"nocontent", "fetchthrow"}

\* the task went through the cancellation check and the path filter
Dispatched(it) == ~it.stopAtStart /\ it.pass

Submitting(b) == {i \in DOMAIN batch[b].items : batch[b].items[i].pc = "submitting"}

\* the tasks the step dequeues in invocation b
NewTasks(b) ==
  IF b \in DOMAIN batch'
  THEN DOMAIN batch'[b].items \ DOMAIN batch[b].items ELSE {}

\* C1: a task whose content has the checksum that the loaded list holds for
\* its path never calls processFile and appends nothing to the error list.
C1_UnchangedIsSkipped ==
  \A t \in Tasks :
    Task(t).same =>
      Task(t).calls = 0 /\ Task(t).errs = 0 /\ Task(t).pc # "submitting"

C1_Witness ==
  \E t \in Tasks :
    /\ Task(t).same /\ Task(t).pc = "settled"
    /\ Task(t).fetches = 1 /\ Task(t).calls = 0

\* C2: a task that passed the path filter, was dequeued with the stop flag
\* unset, got content, and whose checksum differs from the stored one (or
\* has none stored) calls processFile exactly once; no task calls it twice.
C2_ChangedIsSubmittedOnce ==
  \A t \in Tasks :
    /\ Task(t).calls <= 1
    /\ Dispatched(Task(t)) /\ GotContent(Task(t)) /\ ~Task(t).same
         => Task(t).calls = 1

C2_Witness ==
  \E t \in Tasks :
    /\ Dispatched(Task(t)) /\ GotContent(Task(t)) /\ ~Task(t).same
    /\ Task(t).pc = "settled" /\ Task(t).calls = 1

\* C3: in one invocation of generateEmbeddings at most 5 tasks are between
\* their start and their end, so at most 5 processFile calls are pending.
C3_AtMostFiveActive ==
  \A b \in DOMAIN batch :
    /\ ActiveCount(b) <= 5
    /\ Cardinality(Submitting(b)) <= 5

C3_Witness ==
  \E b \in DOMAIN batch :
    /\ Cardinality(Submitting(b)) = 5
    /\ batch[b].head < batch[b].n

\* C4: once processFile failed on quota in an invocation, no task that was
\* dequeued after the failure calls processFile.
C4_NoSubmissionAfterQuota ==
  \A t \in Tasks :
    batch[t[1]].quotaHead > 0 /\ t[2] > batch[t[1]].quotaHead
      => Task(t).calls = 0

\* C5: once processFile failed on quota in an invocation, no task of it that
\* is dequeued afterwards changes TrainingState (sets it back to loading).
C5_NoLoadingAfterQuota ==
  [][\A b \in DOMAIN batch :
       batch[b].quotaHead > 0 /\ NewTasks(b) # {} => state' = state]_vars

\* C6: once processFile failed on quota, no task of an invocation begun
\* after the failure (a later source, a further crawl round) fetches
\* content or calls processFile.
C6_QuotaHaltsThePass ==
  \A t \in Tasks :
    quotaNb > 0 /\ t[1] > quotaNb
      => Task(t).fetches = 0 /\ Task(t).calls = 0

\* C7: once stopGeneratingEmbeddings ran while an invocation was live, every
\* task of it that is dequeued afterwards returns at the cancellation check:
\* no TrainingState update, no fetch, no processFile call, no error entry,
\* no onFileProcessed call.
C7_StoppedTasksDoNothing ==
  [][\A b \in DOMAIN batch :
       batch[b].stopSeen =>
         /\ \A i \in NewTasks(b) :
              /\ batch'[b].items[i].res = "cancelled"
              /\ batch'[b].items[i].sets = 0
              /\ batch'[b].items[i].fetches = 0
              /\ batch'[b].items[i].calls = 0
              /\ batch'[b].items[i].errs = 0
              /\ batch'[b].items[i].processed = 0
         /\ NewTasks(b) # {} => state' = state /\ errors' = errors]_vars

\* C8: a task that was past the cancellation check when
\* stopGeneratingEmbeddings ran is not cancelled: with changed content it
\* calls processFile, and once that call is over onFileProcessed was called
\* exactly once.
C8_StartedTasksFinish ==
  \A t \in Tasks :
    batch[t[1]].stopSeen /\ ~Task(t).stopAtStart =>
      /\ Task(t).res # "cancelled"
      /\ Task(t).pass /\ GotContent(Task(t)) /\ ~Task(t).same
           => Task(t).calls = 1
      /\ Task(t).calls = 1 /\ Task(t).pc = "settled"
           => Task(t).processed = 1

C8_Witness ==
  \E t \in Tasks :
    /\ batch[t[1]].stopSeen /\ stopFlag /\ ~Task(t).stopAtStart
    /\ Task(t).pc = "settled" /\ Task(t).res = "ok"
    /\ Task(t).calls = 1 /\ Task(t).processed = 1

\* C9: onFileProcessed is called exactly once by a task that called
\* processFile, whether the call succeeded, failed or failed on quota, and
\* never by a task that was filtered out, unchanged, without content or
\* cancelled.
C9_ProcessedOncePerSubmission ==
  \A t \in Tasks :
    /\ Task(t).processed <= Task(t).calls
    /\ Task(t).pc = "settled" => Task(t).processed = Task(t).calls
    /\ Task(t).res \in {"ok", "error", "quota"}
         => Task(t).calls = 1 /\ Task(t).processed = 1
    /\ Task(t).res \in {"filtered", "unchanged", "nocontent", "cancelled"}
         => Task(t).processed = 0

C9_Witness ==
  \E t \in Tasks :
    /\ Task(t).res = "quota" /\ Task(t).calls = 1 /\ Task(t).processed = 1

\* C10: a processFile failure other than quota appends one error for its
\* task and is not thrown on: Promise.all is rejected only by a quota
\* failure or a failed fetch, so the other tasks go on as without it.
C10_ErrorIsRecordedAndAbsorbed ==
  /\ \A t \in Tasks :
       /\ Task(t).res = "error"
            => Task(t).errs = 1 /\ ~Task(t).rejected /\ errors # <<>>
       /\ Task(t).res # "error" => Task(t).errs = 0
  /\ \A b \in DOMAIN batch :
       batch[b].all = "rejected" => batch[b].quotaHead > 0 \/ batch[b].threw

C10_Witness ==
  \E b \in DOMAIN batch :
    /\ b = nb /\ errors # <<>>
    /\ batch[b].quotaHead = 0 /\ ~batch[b].threw
    /\ batch[b].all = "pending" /\ batch[b].fulfilled >= 1
    /\ \E i \in Submitting(b) : i > ConcurrencyLimit

\* ----- properties of a pass
\* the onError calls for source k
OnErrorCalls(k) == Cardinality({x \in DOMAIN onErrors : onErrors[x] = k})

\* C11: when the archive, the file metadata or the sitemap of source k
\* cannot be fetched, onError is called once for k, no invocation of
\* generateEmbeddings exists for k, and trainAllSources is past k.
C11_SourceFailureIsLocal ==
  \A k \in 1..Len(sources) :
    /\ OnErrorCalls(k) <= 1
    /\ OnErrorCalls(k) = 1 =>
         /\ \A b \in DOMAIN batch : batch[b].src # k
         /\ srcIdx > k

C11_Witness ==
  /\ OnErrorCalls(1) = 1
  /\ \E t \in Tasks : batch[t[1]].src = 2 /\ Task(t).calls = 1

\* no processFile call failed on quota and no content fetch threw
NothingThrown == quotaNb = 0 /\ \A b \in DOMAIN batch : ~batch[b].threw

\* C12: while trainAllSources runs, with no stop request (and here with
\* nothing thrown either), TrainingState only moves forward along
\* fetching_data, loading, idle: idle is not followed by loading.
C12_LinearTrainingState ==
  [][tpc \notin {"idle", "done"} /\ ~stopCalled' /\ NothingThrown' =>
       /\ state.state = "idle" => state'.state = "idle"
       /\ state.state = "loading" => state'.state \in {"loading", "idle"}
       /\ state'.state = "fetching_data" => state.state = "fetching_data"]_vars

\* the invocations of generateEmbeddings that have not returned
Running == {b \in DOMAIN batch : ~batch[b].returned}

\* C13: while a sync is in flight (TrainingState not idle) no second sync is
\* started: at most one invocation of generateEmbeddings is running.
C13_OneSyncAtATime == Cardinality(Running) <= 1

\* C14: the progress of the loading states never decreases during a pass:
\* a loading state that is written shows at least the highest progress shown
\* before it.
C14_ProgressNeverDecreases ==
  [][state'.state = "loading" /\ state' # state =>
       state'.progress >= maxProgress]_vars

\* ----- properties of the crawl
\* the URL that task t ingests
UrlOf(t) == batch[t[1]].urls[t[2]]

\* C15: no two tasks in flight ingest the same path of the same source, and
\* the candidates of one invocation are pairwise different.
C15_NoTwoTasksForOnePath ==
  /\ \A t, u \in Tasks :
       t # u /\ batch[t[1]].src = batch[u[1]].src => UrlOf(t) # UrlOf(u)
  /\ \A b \in DOMAIN batch : \A i, j \in 1..batch[b].n :
       i # j => batch[b].urls[i] # batch[b].urls[j]

\* C16: no link of the frontier is among the processed links.
C16_FrontierIsUnvisited ==
  Range(crawl.linksToProcess) \cap Range(crawl.processedLinks) = {}

\* a round is under way although a processed page has an href to a
\* processed page
C16_Witness ==
  /\ tpc \in {"checksums", "all"} /\ IsCrawl(sources[srcIdx])
  /\ crawl.linksToProcess # <<>>
  /\ \E p, q \in Range(crawl.processedLinks) :
       \E k \in 1..Len(sources[srcIdx].links[q]) :
         LET href == HrefString(sources[srcIdx].links[q][k]) IN
         /\ isHrefFromBaseUrl(BaseUrl, href)
         /\ PageOf(completeHrefWithBaseUrl(BaseUrl, href)) = p

\* C17: a crawl comes to its end: whenever the frontier holds links, it is
\* empty some time later.
C17_CrawlTerminates ==
  (crawl.linksToProcess # <<>>) ~> (crawl.linksToProcess = <<>>)

\* the crawl of the cyclic graph has ended with every page processed
C17_Witness ==
  /\ tpc = "done" /\ crawl.linksToProcess = <<>>
  /\ {1, 2, 3} \subseteq Range(crawl.processedLinks)

\* C18: over a crawl no page is fetched twice: the pages whose content a
\* round has fetched are pairwise different and none was the candidate of
\* an earlier round.
C18_EachPageFetchedOnce ==
  \A b \in DOMAIN batch :
    IsCrawl(sources[batch[b].src]) /\ ~batch[b].returned =>
      LET pc == batch[b].processedContent IN
      /\ \A i, j \in 1..Len(pc) : i # j => pc[i] # pc[j]
      /\ Range(pc) \cap Range(crawl.processedLinks) = {}

\* C20: a round of a crawl dequeues no task as long as a task of an earlier
\* round of that crawl is queued or in flight.
C20_RoundsAreSequential ==
  \A b, c \in DOMAIN batch :
    /\ b < c /\ batch[b].src = batch[c].src
    /\ IsCrawl(sources[batch[b].src])
    /\ batch[c].head > 0
    => batch[b].head = batch[b].n /\ DOMAIN batch[b].items = {}

\* C21: once a task of a crawl round has thrown, no further round of that
\* crawl is started.
C21_NoRoundAfterThrow ==
  \A b, c \in DOMAIN batch :
    /\ b < c /\ batch[b].src = batch[c].src
    /\ IsCrawl(sources[batch[b].src])
    => ~batch[b].threw /\ batch[b].quotaHead = 0

\* C23: during a pass no entry of the error list is lost: the list never
\* gets shorter.
C23_NoErrorIsLost == [][Len(errors') >= Len(errors)]_vars

\* C24: getFileNameContent is called at most once per task, and only by a
\* task that met the cancellation flag unset and whose path the filter let
\* through.
C24_FetchOnlyAfterTheFilter ==
  \A t \in Tasks :
    /\ Task(t).fetches <= 1
    /\ Task(t).fetches = 1 => ~Task(t).stopAtStart /\ Task(t).pass

\* one task is fetching, the next one of the invocation was filtered out
C24_Witness ==
  \E t, u \in Tasks :
    /\ t[1] = u[1]
    /\ Task(t).fetches = 1 /\ Task(t).pc = "fetching"
    /\ Task(u).res = "filtered" /\ Task(u).fetches = 0

\* ----- properties of the sitemap mode
IsSitemap(src) == src.type = "website" /\ src.sitemap

\* C19: the candidates of a sitemap source are the first min(n, 10) URLs of
\* its sitemap in their order, in one invocation of generateEmbeddings, and
\* no link discovery takes place for it.
C19_SitemapFirstTen ==
  \A k \in 1..Len(sources) :
    IsSitemap(sources[k]) =>
      LET doc == sources[k].links
          first == [i \in 1..Min(Len(doc), 10) |-> doc[i]]
      IN /\ \A b \in DOMAIN batch : batch[b].src = k =>
              /\ batch[b].urls = first /\ batch[b].n = Len(first)
              /\ \A c \in DOMAIN batch : batch[c].src = k => c = b
         /\ Len(sources) = 1 => nb <= 1 /\ crawl.linksToProcess = <<>>

\* tasks of a sitemap of more than ten URLs are fetching
C19_Witness ==
  /\ IsSitemap(sources[1]) /\ Len(sources[1].links) > SitemapLimit
  /\ \E t \in Tasks : Task(t).pc = "fetching" /\ UrlOf(t) = 1
  /\ batch[1].n = SitemapLimit

\* ----- properties of the functions of utils
\* the segments with every ".." applied
RECURSIVE Resolved(_, _)
Resolved(segs, acc) ==
  IF segs = <<>> THEN acc
  ELSE IF Head(segs) = <<"..">>
  THEN Resolved(Tail(segs),
                IF acc = <<>> THEN acc ELSE SubSeq(acc, 1, Len(acc) - 1))
  ELSE Resolved(Tail(segs), Append(acc, Head(segs)))

\* schema and host of an absolute URL, and the segments of its path
OriginOf(url) ==
  LET sl == indexOf(url, "/", 1) IN
  IF sl = 0 THEN url ELSE SubSeq(url, 1, sl - 1)

PathOf(url) ==
  LET sl == indexOf(url, "/", 1)
      q == indexOf(url, "?", 1)
      last == IF q = 0 THEN Len(url) ELSE q - 1
  IN IF sl = 0 THEN <<>> ELSE Resolved(Segments(SubSeq(url, sl, last), <<>>), <<>>)

\* url has the origin of baseUrl and a path equal to its path or below it
Under(baseUrl, url) ==
  /\ OriginOf(url) = OriginOf(baseUrl)
  /\ startsWith(PathOf(url), PathOf(baseUrl))

\* C22: a link that isHrefFromBaseUrl lets into the frontier has the origin
\* of the base URL and a path equal to the base path or below it.
C22_FrontierIsUnderBaseUrl ==
  fn.f = "isHrefFromBaseUrl" /\ fn.done /\ fn.result =>
    Under(fn.baseUrl, fn.completed)

\* the segments of a path that begin with a dot
DotSegments(path) ==
  {k \in 1..Len(Segments(path, <<>>)) : Segments(path, <<>>)[k][1] = "."}

\* the extension of the file name: what follows its last dot (Null: no dot)
ExtensionOf(path) ==
  LET segs == Segments(path, <<>>)
      name == segs[Len(segs)]
      dots == {k \in 1..Len(name) : name[k] = "."}
  IN IF dots = {} THEN Null
     ELSE IF name[Len(name)] = "." THEN ""
     ELSE name[Len(name)]

SomeGlobMatches(path, globs) ==
  \E g \in 1..Len(globs) : minimatch(path, globs[g])

\* C25: for the path of a file, shouldIncludeFileWithPath is true exactly
\* when no segment begins with a dot, the extension is a supported one or
\* missing, some include glob matches and no exclude glob matches.
C25_FilterIsDefaultDeny ==
  fn.f = "shouldIncludeFileWithPath" /\ fn.done /\ ~fn.isWebsiteSource
  /\ fn.path \in Paths =>
    (fn.result <=>
       /\ DotSegments(fn.path) = {}
       /\ ExtensionOf(fn.path) \in {Null, ""} \cup
            {"md", "mdx", "mdoc", "rst", "txt", "html", "htm"}
       /\ SomeGlobMatches(fn.path, fn.includeGlobs)
       /\ ~SomeGlobMatches(fn.path, fn.excludeGlobs))

\* a path that an include glob and an exclude glob match was rejected
C25_Witness ==
  /\ fn.f = "shouldIncludeFileWithPath" /\ fn.done /\ ~fn.result
  /\ fn.path = <<"docs", "/", "a", ".", "md">>
  /\ SomeGlobMatches(fn.path, fn.includeGlobs)
  /\ SomeGlobMatches(fn.path, fn.excludeGlobs)

\* ----- properties of the search
\* C30: whenever the query occurs in the stripped, whitespace-collapsed
\* content, the snippet of the default length contains the query.
C30_SnippetHoldsTheQuery ==
  fn.f = "createKWICSnippet" /\ fn.done /\ fn.maxLength = MAX_LENGTH
  /\ indexOfTerm(PlainText(fn.content), fn.searchTerm) # -1 =>
    indexOfTerm(fn.result, fn.searchTerm) # -1

\* the request is a GET whose query is missing, empty or only whitespace
BlankQuery ==
  req.method = "GET" /\ (req.query = <<>> \/ req.query[1] \in
                           {<<>>, <<" ">>, <<" ", "\n">>})

\* C26: a GET request with a blank query is answered with status 200 and an
\* empty data list, and neither the full-text query nor the join is executed.
C26_BlankQueryIsEmptyResult ==
  BlankQuery /\ req.pc # "received" =>
    /\ req.pc = "responded"
    /\ req.res = [status |-> 200, error |-> <<>>, data |-> << <<>> >>]
    /\ req.rpc = <<>> /\ req.joins = <<>>

C26_Witness ==
  /\ BlankQuery /\ req.query = << <<" ", "\n">> >>
  /\ req.pc = "responded" /\ req.res.status = 200

\* C27: the match_count passed to the full-text query is at most 20, for
\* every value of the limit parameter.
C27_MatchCountAtMost20 ==
  \A i \in DOMAIN req.rpc : req.rpc[i].match_count <= 20

C27_Witness ==
  /\ req.limit = << <<"1", "0", "0">> >>
  /\ req.rpc # <<>> /\ req.rpc[1].match_count = 20

\* the join has returned and the request is answered
Joined == req.pc = "responded" /\ req.files # <<>>

\* the ids of the files the join returned
JoinedIds ==
  IF req.files[1] = <<>> THEN {}
  ELSE {req.files[1][1][k].id : k \in DOMAIN req.files[1][1]}

\* the sections of the matches of file id, in the order of the matches
RECURSIVE SnippetsOf(_, _, _)
SnippetsOf(data, id, query) ==
  IF data = <<>> THEN <<>>
  ELSE IF Head(data).file_id # id THEN SnippetsOf(Tail(data), id, query)
  ELSE <<[meta |-> Head(data).meta,
          content |-> createKWICSnippet(Head(data).content, query,
                                        MAX_LENGTH)]>>
       \o SnippetsOf(Tail(data), id, query)

\* C28: the response holds exactly one result per file_id of the matches
\* whose file the join returned, with one snippet per match of that file in
\* the order of the matches; a match whose file is missing from the join
\* contributes nothing and the request still succeeds.
C28_OneResultPerJoinedFile ==
  Joined =>
    LET data == req.fts[1].data[1]
        results == req.res.data[1]
        present == {id \in JoinedIds :
                      \E k \in DOMAIN data : data[k].file_id = id}
    IN /\ req.res.status = 200 /\ req.res.error = <<>>
       /\ Len(results) = Cardinality(present)
       /\ \A id \in present :
            \E k \in DOMAIN results :
              /\ results[k].path = FileRow(id).path
              /\ results[k].sections = SnippetsOf(data, id, req.query[1])
              /\ \A j \in DOMAIN results :
                   results[j].path = FileRow(id).path => j = k

C28_Witness ==
  /\ Joined
  /\ \E k \in DOMAIN req.res.data[1] : Len(req.res.data[1][k].sections) = 2
  /\ \E k \in DOMAIN req.fts[1].data[1] :
       req.fts[1].data[1][k].file_id \notin JoinedIds
  /\ req.fts[1].data[1][1].file_id # req.fts[1].data[1][2].file_id

\* the full-text query has returned an error or no data
FtsFailed == req.fts # <<>> /\ (req.fts[1].error # <<>> \/ req.fts[1].data = <<>>)

\* C29: when the full-text query returns an error or no data, the request
\* fails with one error message, the message of the backend when there is
\* one, without results, and the join is not executed.
C29_BackendErrorFailsTheRequest ==
  FtsFailed =>
    /\ req.pc = "responded" /\ req.res.status = 400
    /\ req.res.error =
         IF req.fts[1].error = <<"fts failed">> THEN <<"fts failed">>
         ELSE <<"Error retrieving sections">>
    /\ req.res.data = <<>>
    /\ req.joins = <<>> /\ req.files = <<>>

C29_Witness ==
  /\ FtsFailed /\ req.fts[1].error = <<"fts failed">>
  /\ req.fts[1].data # <<>> /\ req.fts[1].data[1] # <<>>
  /\ req.res.status = 400

\* ----- properties of a whole pass
\* the processFile calls in flight, over all invocations
InFlight == {t \in Tasks : Task(t).pc = "submitting"}

\* C31: over a whole pass at most 5 processFile calls are in flight at any
\* moment, also when an invocation ended on a quota failure and the next
\* source or the next crawl round has begun.
C31_AtMostFiveInFlight == Cardinality(InFlight) <= 5

\* the invocations of trainAllSources that began after the stop request:
\* the request came during the pass and none came since they began
AfterStop ==
  {b \in DOMAIN batch : stopCalled /\ ~batch[b].stopSeen /\ ~batch[b].direct}

\* C32: once stopGeneratingEmbeddings was called during a pass, no item of a
\* source or of a crawl round that begins after the request is dispatched
\* to processFile.
C32_StopHoldsForThePass ==
  \A t \in Tasks : t[1] \in AfterStop => Task(t).calls = 0

\* C33: a task that passes the cancellation check and the path filter sets
\* TrainingState to loading with progress = index + 1 and total = numFiles
\* in the step that begins its content fetch; a task that is filtered out
\* or cancelled changes nothing of TrainingState and fetches nothing.
C33_LoadingBeforeTheFetch ==
  [][\A b \in DOMAIN batch : \A i \in NewTasks(b) :
       LET it == batch'[b].items[i]
           index == i - 1
       IN /\ ~it.stopAtStart /\ it.pass =>
               /\ it.sets = 1 /\ it.fetches = 1
               /\ state' = [state |-> "loading", progress |-> index + 1,
                            total |-> batch[b].n]
          /\ it.stopAtStart \/ ~it.pass =>
               it.sets = 0 /\ it.fetches = 0 /\ state' = state]_vars

C33_Witness ==
  \E t \in Tasks :
    /\ Task(t).pc = "fetching" /\ t[2] = 3 /\ batch[t[1]].n > 3
    /\ state = [state |-> "loading", progress |-> 3, total |-> batch[t[1]].n]
    /\ \A u \in Tasks : u[1] = t[1] => u[2] >= 3

\* the step in which the checksums of the source at work arrive
LoadsChecksums == tpc = "checksums" /\ tpc' = "all"

\* C34: the checksums of a source are loaded once per sync of the source,
\* before any of its items is dispatched: for a website source they are not
\* loaded again between the crawl rounds, that is, no load comes when a
\* round of the crawl is already over.
C34_ChecksumsLoadedOncePerSource ==
  [][LoadsChecksums /\ IsCrawl(sources[srcIdx]) =>
       crawl.processedLinks = <<>>]_vars

\* C35: a pass that has begun comes to its end, the final transition to
\* idle of line 526, whatever fails and whenever the user asks to stop, as
\* long as every request settles and every queued reaction runs.
C35_PassTerminates == (tpc # "idle") ~> (tpc = "done")

\* a pass over two sources with a stop request, a quota failure and a source
\* that could not be listed has ended
C35_Witness ==
  /\ tpc = "done" /\ Len(sources) = 2
  /\ stopCalled /\ quotaNb > 0 /\ onErrors # <<>>

\* C36: the snippet has at most maxLength characters, whether the query is
\* found or not; when it is not found the snippet is the first maxLength
\* characters of the stripped content.
C36_SnippetWithinMaxLength ==
  fn.f = "createKWICSnippet" /\ fn.done =>
    /\ Len(fn.result) <= fn.maxLength
    /\ indexOfTerm(PlainText(fn.content), fn.searchTerm) = -1 =>
         fn.result = SubSeq(PlainText(fn.content), 1,
                            Min(fn.maxLength, Len(PlainText(fn.content))))

\* ----- properties of the subscription endpoint
\* C37: the columns of the team are cleared only after the session was
\* authenticated, the customer id of the team was found and Stripe confirmed
\* the deletion; a request answered with 401, 400 or 405 leaves the table of
\* teams as it was.
C37_ClearedOnlyAfterDeletion ==
  IsCancel =>
    /\ req.teams # req.teams0 =>
         /\ req.user = <<TRUE>>
         /\ req.teamId \in TeamIds
         /\ req.teams0[req.teamId].stripe_customer_id # <<>>
         /\ req.deleted # <<>> /\ req.deleted[1] # <<>>
         /\ req.deleted[1][1].id # ""
         /\ req.teams = [req.teams0 EXCEPT ![req.teamId] = NoCustomer]
    /\ req.res.status \in {401, 400, 405} => req.teams = req.teams0

C37_Witness ==
  /\ IsCancel /\ req.res.status = 200
  /\ req.teams0[req.teamId].stripe_price_id = <<"price_pro">>
  /\ req.teams[req.teamId] = NoCustomer

\* C38: when the customer has no subscription (the list is empty) the
\* request is answered with 400 and 'No subscription found.', no deletion is
\* attempted and the table of teams is unchanged.
C38_NoSubscriptionIs400 ==
  IsCancel /\ req.subscriptions = << <<>> >> =>
    /\ req.pc = "responded"
    /\ req.res.status = 400 /\ req.res.error = <<"No subscription found.">>
    /\ \A k \in DOMAIN req.calls : req.calls[k] # "subscriptions.del"
    /\ req.teams = req.teams0

\* ----- properties of the three endpoints
IsSearch == req.pc # "none" /\ "api" \notin DOMAIN req

\* the method of the request is not one the endpoint allows
MethodNotAllowed ==
  \/ IsSearch /\ req.method \notin {"GET", "OPTIONS"}
  \/ IsSections /\ req.method \notin {"GET", "OPTIONS"}
  \/ IsCancel /\ req.method # "POST"

\* C39: a request whose method is not allowed is answered with 405 before
\* anything else: no query of the database, no rate-limit check, no call of
\* Stripe and no search is made for it.
C39_MethodCheckedFirst ==
  MethodNotAllowed /\ req.pc \notin {"received", "arrived"} =>
    /\ req.pc = "responded" /\ req.res.status = 405
    /\ IF IsSearch THEN req.rpc = <<>> /\ req.joins = <<>>
       ELSE req.calls = <<>>

C39_Witness ==
  /\ IsCancel /\ req.method = "GET"
  /\ req.pc = "responded" /\ req.res.status = 405 /\ req.calls = <<>>

====
